---- MODULE Spec2Model ----
(***************************************************************************)
(* Model of the yield service's feature pipeline (src/model/bns_model.py): *)
(* load_bns_long_csv, attach_lags_for_prediction and apply_mvp_adjustment, *)
(* with the pandas operations they call modelled by what they do.          *)
(*                                                                         *)
(* Representation                                                          *)
(*   - a string is a sequence of one-character strings, so that str.strip  *)
(*     and the lexicographic order of sort_values are computed;            *)
(*   - a missing string cell (NaN in an object column) is NaStr;           *)
(*   - a raw numeric cell of a CSV is [kind, v]: "num" (parses to v),      *)
(*     "blank" (empty cell, NaN) or "text" (non-numeric text);             *)
(*   - a float that may be NaN is a sequence: <<>> is NaN, <<v>> is v;     *)
(*   - yields in t/ha and the lag features are fixed-point integers in     *)
(*     units of 1/Unit t/ha; Unit is divisible by 10, 2 and 3 so that the  *)
(*     division by 10 and the means of one, two or three yields are exact; *)
(*   - adjustments and predictions are in 1/1000 t/ha, the vegetation      *)
(*     index in 1/100, the air temperature in 1/10 degree.                 *)
(***************************************************************************)
EXTENDS Integers, Sequences, FiniteSets, TLC

VARIABLES pc, csv, BNS_HIST, poly_df, out

vars == <<pc, csv, BNS_HIST, poly_df, out>>

(***************************************************************************)
(* Bounds of the checked inputs.                                           *)
(***************************************************************************)
MaxYear == 3
MaxCleanRows == 3
MaxDirtyRows == 2
MaxQueryRows == 2
MaxAdjustRows == 1
NdviGrid == 3
TempGrid == 3

(* fixed-point scale of yields: 1 t/ha = Unit *)
Unit == 10 * 2 * 3

(***************************************************************************)
(* Strings.                                                                *)
(***************************************************************************)
NaStr == <<"NaN">>

CharCode(c) ==
  CASE c = " " -> 32
    [] c = "A" -> 65
    [] c = "B" -> 66
    [] c = "a" -> 97
    [] c = "n" -> 110
    [] OTHER -> 127

RECURSIVE lstrip(_)
lstrip(s) == IF s # <<>> /\ Head(s) = " " THEN lstrip(Tail(s)) ELSE s

RECURSIVE rstrip(_)
rstrip(s) ==
  IF s # <<>> /\ s[Len(s)] = " " THEN rstrip(SubSeq(s, 1, Len(s) - 1)) ELSE s

(* Series.str.strip() on one cell *)
strip(s) == rstrip(lstrip(s))

(* Series.astype(str) on one cell: NaN becomes the text "nan" *)
astype_str(s) == IF s = NaStr THEN <<"n", "a", "n">> ELSE s

RECURSIVE StrLess(_, _)
StrLess(a, b) ==
  IF b = <<>> THEN FALSE
  ELSE IF a = <<>> THEN TRUE
  ELSE IF Head(a) = Head(b) THEN StrLess(Tail(a), Tail(b))
  ELSE CharCode(Head(a)) < CharCode(Head(b))

(***************************************************************************)
(* Numbers.                                                                *)
(***************************************************************************)
NaN == <<>>

Num(v) == [kind |-> "num", v |-> v]
Blank == [kind |-> "blank", v |-> 0]
Text == [kind |-> "text", v |-> 0]

(* pd.to_numeric(..., errors="coerce") on one cell *)
to_numeric(c) == IF c.kind = "num" THEN <<c.v>> ELSE NaN

(* a column read from a CSV is of dtype object when a cell is non-numeric text *)
IsObjectColumn(cells) == \E i \in DOMAIN cells : cells[i].kind = "text"

RECURSIVE SeqSum(_)
SeqSum(s) == IF s = <<>> THEN 0 ELSE Head(s) + SeqSum(Tail(s))

RECURSIVE Flatten(_)
Flatten(ss) == IF ss = <<>> THEN <<>> ELSE Head(ss) \o Flatten(Tail(ss))

(***************************************************************************)
(* DataFrame.sort_values(["district", "year"]): with several keys pandas   *)
(* sorts by a lexsort of the key codes, which is stable, so rows of equal  *)
(* key keep the order they had (in comb: the history row, then the query   *)
(* rows in request order).  Strings compare by code point.                 *)
(***************************************************************************)
KeyLess(a, b) ==
  \/ StrLess(a.district, b.district)
  \/ a.district = b.district /\ a.year < b.year

RECURSIVE InsertSorted(_, _)
InsertSorted(r, s) ==
  IF s = <<>> THEN <<r>>
  ELSE IF KeyLess(r, Head(s)) THEN <<r>> \o s
  ELSE <<Head(s)>> \o InsertSorted(r, Tail(s))

RECURSIVE sort_values(_)
sort_values(rows) ==
  IF rows = <<>> THEN <<>>
  ELSE InsertSorted(rows[Len(rows)], sort_values(SubSeq(rows, 1, Len(rows) - 1)))

(***************************************************************************)
(* groupby("district")[col].shift(n) and .rolling(3, min_periods=1).mean() *)
(* `ys` is the column yield_t_ha of the frame `rows`.                      *)
(***************************************************************************)
PrevInGroup(rows, i) ==
  LET before == {j \in 1..(i - 1) : rows[j].district = rows[i].district}
  IN IF before = {} THEN 0 ELSE CHOOSE j \in before : \A k \in before : k <= j

GroupShift1(rows, ys) ==
  [i \in DOMAIN rows |->
     LET p == PrevInGroup(rows, i) IN IF p = 0 THEN NaN ELSE ys[p]]

GroupShift2(rows, ys) ==
  [i \in DOMAIN rows |->
     LET p == PrevInGroup(rows, i)
         q == IF p = 0 THEN 0 ELSE PrevInGroup(rows, p)
     IN IF q = 0 THEN NaN ELSE ys[q]]

(* the rolling window runs over the positions of the whole series it is given *)
Rolling3Mean(s) ==
  [i \in DOMAIN s |->
     LET lo == IF i > 2 THEN i - 2 ELSE 1
         known == Flatten([j \in 1..(i - lo + 1) |-> s[lo + j - 1]])
     IN IF Len(known) < 1 THEN NaN ELSE <<SeqSum(known) \div Len(known)>>]

(* the three feature columns of a sorted frame *)
WithLags(rows) ==
  LET ys == [i \in DOMAIN rows |-> rows[i].yield_t_ha]
      l1 == GroupShift1(rows, ys)
      l2 == GroupShift2(rows, ys)
      r3 == Rolling3Mean(GroupShift1(rows, ys))
  IN [i \in DOMAIN rows |->
        [yield_lag1 |-> l1[i], yield_lag2 |-> l2[i], yield_roll3 |-> r3[i]]]

(***************************************************************************)
(* load_bns_long_csv                                                       *)
(***************************************************************************)
(* `src` is the row's index label in the file as read; it is dropped by     *)
(* reset_index and kept here only so that a record can be traced to its    *)
(* raw row.                                                                *)
Required == {"district", "year", "yield_c_per_ha"}

LoadCoerce(r) ==
  [district |-> strip(astype_str(r.district)),
   year |-> to_numeric(r.year),
   yield_c_per_ha |-> to_numeric(r.yield_c_per_ha),
   src |-> r.src]

(* dropna(subset=["district", "year", "yield_c_per_ha"]) *)
LoadKeep(r) == r.district # NaStr /\ r.year # NaN /\ r.yield_c_per_ha # NaN

LoadConvert(r) ==
  [district |-> r.district,
   year |-> r.year[1],
   yield_c_per_ha |-> r.yield_c_per_ha[1],
   yield_t_ha |-> <<(r.yield_c_per_ha[1] * Unit) \div 10>>,
   src |-> r.src]

load_bns_long_csv(file) ==
  IF Required \ file.cols # {}
  THEN [status |-> "ValueError: missing columns", rows |-> <<>>]
  ELSE
    LET coerced == [i \in DOMAIN file.rows |-> LoadCoerce(file.rows[i])]
        kept == SelectSeq(coerced, LoadKeep)
        conv == [i \in DOMAIN kept |-> LoadConvert(kept[i])]
        sorted == sort_values(conv)
        lags == WithLags(sorted)
    IN [status |-> "ok",
        rows |-> [i \in DOMAIN sorted |->
                    [district |-> sorted[i].district,
                     year |-> sorted[i].year,
                     yield_c_per_ha |-> sorted[i].yield_c_per_ha,
                     yield_t_ha |-> sorted[i].yield_t_ha,
                     src |-> sorted[i].src,
                     yield_lag1 |-> lags[i].yield_lag1,
                     yield_lag2 |-> lags[i].yield_lag2,
                     yield_roll3 |-> lags[i].yield_roll3]]]

(***************************************************************************)
(* attach_lags_for_prediction                                              *)
(***************************************************************************)
Need == {"district", "year"}

NullFeatures == [yield_lag1 |-> NaN, yield_lag2 |-> NaN, yield_roll3 |-> NaN]

(* comb = concat([base, tmp]) with district stripped and year coerced *)
CombCoerce(r) ==
  [district |-> strip(astype_str(r.district)),
   year |-> to_numeric(r.year),
   yield_t_ha |-> r.yield_t_ha]

(* dropna(subset=["district", "year"]) *)
CombKeep(r) == r.district # NaStr /\ r.year # NaN

CombRows(hist, poly) ==
  LET base == [i \in DOMAIN hist.rows |->
                 [district |-> hist.rows[i].district,
                  year |-> Num(hist.rows[i].year),
                  yield_t_ha |-> hist.rows[i].yield_t_ha]]
      tmp == [i \in DOMAIN poly.rows |->
                [district |-> poly.rows[i].district,
                 year |-> poly.rows[i].year,
                 yield_t_ha |-> NaN]]
      comb == base \o tmp
      coerced == [i \in DOMAIN comb |-> CombCoerce(comb[i])]
      kept == SelectSeq(coerced, CombKeep)
  IN sort_values([i \in DOMAIN kept |->
                    [district |-> kept[i].district,
                     year |-> kept[i].year[1],
                     yield_t_ha |-> kept[i].yield_t_ha]])

IsPredRow(r) == r.yield_t_ha = NaN

(* the rows of comb whose yield is empty, with their features *)
PredRows(hist, poly) ==
  LET comb == CombRows(hist, poly)
      lags == WithLags(comb)
      full == [i \in DOMAIN comb |->
                 [district |-> comb[i].district,
                  year |-> comb[i].year,
                  yield_t_ha |-> comb[i].yield_t_ha,
                  yield_lag1 |-> lags[i].yield_lag1,
                  yield_lag2 |-> lags[i].yield_lag2,
                  yield_roll3 |-> lags[i].yield_roll3]]
  IN SelectSeq(full, IsPredRow)

MergeKeyEq(l, r) ==
  l.district = r.district /\ l.year.kind = "num" /\ l.year.v = r.year

Joined(l, f) ==
  [district |-> l.district, year |-> l.year, poly_id |-> l.poly_id,
   yield_lag1 |-> f.yield_lag1, yield_lag2 |-> f.yield_lag2,
   yield_roll3 |-> f.yield_roll3]

(* the rows a left join emits for one left row: one per matching right row, *)
(* in the right frame's order, or one row of nulls when nothing matches     *)
MergeLeftRow(l, right) ==
  LET Hit(r) == MergeKeyEq(l, r)
      hits == SelectSeq(right, Hit)
  IN IF hits = <<>> THEN <<Joined(l, NullFeatures)>>
     ELSE [j \in DOMAIN hits |-> Joined(l, hits[j])]

(* poly_df.merge(pred_rows, on=["district", "year"], how="left").  The     *)
(* keys of the left frame are the caller's cells as given (district not    *)
(* stripped).  The year of pred_rows is int64; pandas refuses to merge it  *)
(* with a text (object) key column ("You are trying to merge on object and *)
(* int64 columns"), a check it skips when one of the frames has no rows.   *)
merge_left(poly, right) ==
  IF /\ IsObjectColumn([i \in DOMAIN poly.rows |-> poly.rows[i].year])
     /\ right # <<>>
  THEN [status |-> "ValueError: merge on object and int64", rows |-> <<>>]
  ELSE [status |-> "ok",
        rows |-> Flatten([i \in DOMAIN poly.rows |->
                            MergeLeftRow(poly.rows[i], right)])]

attach_lags_for_prediction(hist, poly) ==
  IF Need \ poly.cols # {}
  THEN [status |-> "ValueError: missing columns", rows |-> <<>>]
  ELSE merge_left(poly, PredRows(hist, poly))

(***************************************************************************)
(* apply_mvp_adjustment.  The frames checked carry no ndvi_max / ndvi_min  *)
(* columns, so the derived column ndvi_range is not added.                 *)
(***************************************************************************)
(* k_ndvi = 0.6 in tenths, k_temp = 0.02 in hundredths, the baseline 0.2   *)
(* in hundredths, the clip limits -0.5 and 0.5 in thousandths              *)
k_ndvi == 6
k_temp == 2
NdviBaseline == 20
ClipLo == -500
ClipHi == 500

(* clip with the upper limit not applied *)
clip_NoUpper(x, lo, hi) == IF x < lo THEN lo ELSE x

(* Series.clip(lower, upper) on one value *)
clip(x, lo, hi) == IF x < lo THEN lo ELSE IF x > hi THEN hi ELSE x

(* Series.fillna(0) on one value *)
fillna0(x) == IF x = NaN THEN 0 ELSE x[1]

(* k_ndvi * (ndvi_mean - 0.2), in thousandths; NaN stays NaN *)
NdviEffect(x) == IF x = NaN THEN NaN ELSE <<k_ndvi * (x[1] - NdviBaseline)>>

(* k_temp * gee_air, in thousandths; NaN stays NaN *)
TempEffect(x) == IF x = NaN THEN NaN ELSE <<k_temp * x[1]>>

AdjustRow(r) ==
  LET ndvi_mean == to_numeric(r.ndvi_mean)
      gee_air == to_numeric(r.gee_air_temp_mean)
      adj == clip(fillna0(NdviEffect(ndvi_mean)) + fillna0(TempEffect(gee_air)),
                  ClipLo, ClipHi)
  IN [ndvi_mean |-> r.ndvi_mean,
      gee_air_temp_mean |-> r.gee_air_temp_mean,
      yield_pred_base_t_ha |-> r.yield_pred_base_t_ha,
      yield_adjustment_t_ha |-> <<adj>>,
      yield_pred_t_ha |-> IF r.yield_pred_base_t_ha = NaN THEN NaN
                          ELSE <<r.yield_pred_base_t_ha[1] + adj>>]

(* out.get(col) is None for an absent column; pd.to_numeric(None) is the   *)
(* scalar NaN, and so is the effect computed from it: a float has no       *)
(* fillna.                                                                 *)
apply_mvp_adjustment(frame) ==
  IF {"ndvi_mean", "gee_air_temp_mean"} \ frame.cols # {}
  THEN [status |-> "AttributeError: fillna", rows |-> <<>>]
  ELSE IF "yield_pred_base_t_ha" \notin frame.cols
  THEN [status |-> "KeyError: yield_pred_base_t_ha", rows |-> <<>>]
  ELSE [status |-> "ok",
        rows |-> [i \in DOMAIN frame.rows |-> AdjustRow(frame.rows[i])]]

(***************************************************************************)
(* Inputs.                                                                 *)
(***************************************************************************)
SeqsUpTo(S, n) == UNION {[1..k -> S] : k \in 0..n}

DistrictA == <<"A">>
DistrictB == <<"B">>
YieldVals == {10, 30}

CleanRawRows ==
  [district : {DistrictA, DistrictB},
   year : {Num(y) : y \in 1..MaxYear},
   yield_c_per_ha : {Num(c) : c \in YieldVals}]

DirtyRawRows ==
  [district : {<<" ", "A", " ">>, <<" ", " ">>, NaStr},
   year : {Num(1), Blank, Text},
   yield_c_per_ha : {Num(10), Blank, Text}]

(* the clean files are listed in key order: load_bns_long_csv sorts stably, *)
(* so a file in another order loads as one of these does                    *)
InKeyOrder(raw) ==
  \A i \in 1..(Len(raw) - 1) :
    ~KeyLess([district |-> raw[i + 1].district, year |-> raw[i + 1].year.v],
             [district |-> raw[i].district, year |-> raw[i].year.v])

CleanFiles == {raw \in SeqsUpTo(CleanRawRows, MaxCleanRows) : InKeyOrder(raw)}

(* a file's rows, each with its index label; an absent column has no cells *)
FileOf(cols, raw) ==
  [cols |-> cols,
   rows |-> [i \in DOMAIN raw |->
               [c \in cols \cup {"src"} |-> IF c = "src" THEN i ELSE raw[i][c]]]]

HistoryFiles ==
  {FileOf(Required, raw) :
     raw \in CleanFiles \cup SeqsUpTo(DirtyRawRows, MaxDirtyRows)}
  \cup {FileOf(cols, raw) :
          cols \in (SUBSET Required) \ {Required},
          raw \in SeqsUpTo(CleanRawRows, 1)}

QueryRawRows ==
  [district : {DistrictA, <<" ", "A">>, DistrictB},
   year : {Num(y) : y \in 1..(MaxYear + 1)} \cup {Blank, Text}]

RequestOf(cols, raw) ==
  [cols |-> cols \cup {"poly_id"},
   rows |-> [i \in DOMAIN raw |->
               [c \in cols \cup {"poly_id"} |->
                  IF c = "poly_id" THEN i ELSE raw[i][c]]]]

Requests ==
  {RequestOf(Need, raw) : raw \in SeqsUpTo(QueryRawRows, MaxQueryRows)}
  \cup {RequestOf(cols, raw) :
          cols \in (SUBSET Need) \ {Need}, raw \in SeqsUpTo(QueryRawRows, 1)}

NdviCells == {Num(30 * i) : i \in (0 - NdviGrid)..NdviGrid} \cup {Blank, Text}
TempCells == {Num(100 * i) : i \in (0 - TempGrid)..TempGrid} \cup {Blank, Text}
BaseVals == {NaN, <<1200>>, <<4800>>}
SignalCols == {"ndvi_mean", "gee_air_temp_mean"}

AdjustRawRows ==
  [ndvi_mean : NdviCells \cup {Num(50)},
   gee_air_temp_mean : TempCells,
   yield_pred_base_t_ha : BaseVals]

AdjustFrameOf(cols, raw) ==
  [cols |-> cols,
   rows |-> [i \in DOMAIN raw |-> [c \in cols |-> raw[i][c]]]]

AdjustFrames ==
  {AdjustFrameOf(cols \cup {"yield_pred_base_t_ha"}, raw) :
     cols \in SUBSET SignalCols,
     raw \in SeqsUpTo(AdjustRawRows, MaxAdjustRows) \ {<<>>}}

NoFile == [cols |-> {}, rows |-> <<>>]
NoResult == [status |-> "none", rows |-> <<>>]

(***************************************************************************)
(* The service: the history is loaded once at start (app.py), then a       *)
(* request's rows get their features attached.                             *)
(***************************************************************************)
Init ==
  /\ pc = "start"
  /\ csv \in HistoryFiles
  /\ BNS_HIST = [status |-> "unloaded", rows |-> <<>>]
  /\ poly_df = NoFile
  /\ out = NoResult

LoadBnsLongCsv ==
  /\ pc = "start"
  /\ BNS_HIST' = load_bns_long_csv(csv)
  /\ pc' = IF BNS_HIST'.status = "ok" THEN "serving" ELSE "failed"
  /\ UNCHANGED <<csv, poly_df, out>>

AttachLagsForPrediction ==
  /\ pc = "serving"
  /\ \E p \in Requests :
       /\ poly_df' = p
       /\ out' = attach_lags_for_prediction(BNS_HIST, p)
  /\ pc' = "attached"
  /\ UNCHANGED <<csv, BNS_HIST>>

Next == LoadBnsLongCsv \/ AttachLagsForPrediction

Spec == Init /\ [][Next]_vars

(***************************************************************************)
(* The adjustment as a function of a frame of predicted rows.              *)
(***************************************************************************)
InitAdjust ==
  /\ pc = "predicted"
  /\ csv = NoFile
  /\ BNS_HIST = [status |-> "unloaded", rows |-> <<>>]
  /\ poly_df \in AdjustFrames
  /\ out = NoResult

ApplyMvpAdjustment ==
  /\ pc = "predicted"
  /\ out' = apply_mvp_adjustment(poly_df)
  /\ pc' = "adjusted"
  /\ UNCHANGED <<csv, BNS_HIST, poly_df>>

NextAdjust == ApplyMvpAdjustment

SpecAdjust == InitAdjust /\ [][NextAdjust]_vars

(***************************************************************************)
(* What the specification expects of the features, stated on the history   *)
(* alone: the yields of one entity at the periods before q, newest first.  *)
(***************************************************************************)
HistRows == BNS_HIST.rows

Entities == {HistRows[i].district : i \in DOMAIN HistRows}

RowsOf(e) == {i \in DOMAIN HistRows : HistRows[i].district = e}

AscendingPeriods(e) ==
  \A i, j \in RowsOf(e) : i # j => HistRows[i].year # HistRows[j].year

Newest(S) == CHOOSE i \in S : \A j \in S : HistRows[j].year <= HistRows[i].year

PriorYields(e, q) ==
  LET P1 == {i \in RowsOf(e) : HistRows[i].year < q}
      P2 == IF P1 = {} THEN {} ELSE P1 \ {Newest(P1)}
      P3 == IF P2 = {} THEN {} ELSE P2 \ {Newest(P2)}
      Y(P) == IF P = {} THEN <<>> ELSE <<HistRows[Newest(P)].yield_t_ha>>
  IN Y(P1) \o Y(P2) \o Y(P3)

ExpectedFeatures(e, q) ==
  LET ys == PriorYields(e, q)
      known == Flatten(ys)
  IN [yield_lag1 |-> IF Len(ys) >= 1 THEN ys[1] ELSE NaN,
      yield_lag2 |-> IF Len(ys) >= 2 THEN ys[2] ELSE NaN,
      yield_roll3 |-> IF known = <<>> THEN NaN
                      ELSE <<SeqSum(known) \div Len(known)>>]

Features(r) ==
  [yield_lag1 |-> r.yield_lag1, yield_lag2 |-> r.yield_lag2,
   yield_roll3 |-> r.yield_roll3]

Attached == pc = "attached" /\ out.status = "ok"

(* the entity a raw district cell names after normalization *)
EntityOf(d) == strip(astype_str(d))

(***************************************************************************)
(* C1: a query row (entity, p_k) for a period p_k of the entity's history  *)
(* gets lag1 = y_{k-1}, lag2 = y_{k-2} and roll3 = the mean of the known   *)
(* values among y_{k-1}, y_{k-2}, y_{k-3}; the period's own yield y_k is   *)
(* in none of them.                                                        *)
(***************************************************************************)
C1_HistoricalPeriodFeatures ==
  Attached =>
    \A j \in DOMAIN out.rows : \A e \in Entities :
      LET r == out.rows[j] IN
      (/\ AscendingPeriods(e)
       /\ r.district = e
       /\ r.year.kind = "num"
       /\ \E i \in RowsOf(e) : HistRows[i].year = r.year.v)
      => Features(r) = ExpectedFeatures(e, r.year.v)

(***************************************************************************)
(* C2: when every request row of an entity carries the same period q > pn, *)
(* each returned row of the entity has lag1 = yn, lag2 = y_{n-1} and       *)
(* roll3 = the mean of the available ones among yn, y_{n-1}, y_{n-2}.      *)
(***************************************************************************)
C2_FuturePeriodFeatures ==
  Attached =>
    \A e \in Entities : \A q \in 1..(MaxYear + 1) :
      (/\ AscendingPeriods(e)
       /\ \A i \in RowsOf(e) : HistRows[i].year < q
       /\ \E i \in DOMAIN poly_df.rows : poly_df.rows[i].district = e
       /\ \A i \in DOMAIN poly_df.rows :
            EntityOf(poly_df.rows[i].district) = e => poly_df.rows[i].year = Num(q))
      => \A j \in DOMAIN out.rows :
           out.rows[j].district = e
             => Features(out.rows[j]) = ExpectedFeatures(e, q)

(***************************************************************************)
(* C3: a query row whose entity has no record in the history gets lag1,    *)
(* lag2 and roll3 all null, whatever the other entities of the history.    *)
(***************************************************************************)
C3_AbsentEntityAllNull ==
  Attached =>
    \A j \in DOMAIN out.rows :
      EntityOf(out.rows[j].district) \notin Entities
        => Features(out.rows[j]) = NullFeatures

(***************************************************************************)
(* C4: the output has as many rows as the caller's input, in the same      *)
(* order, each with the original columns of the input row at its position. *)
(***************************************************************************)
C4_MergePreservesRows ==
  Attached =>
    /\ Len(out.rows) = Len(poly_df.rows)
    /\ \A i \in DOMAIN poly_df.rows :
         /\ out.rows[i].poly_id = poly_df.rows[i].poly_id
         /\ out.rows[i].district = poly_df.rows[i].district
         /\ out.rows[i].year = poly_df.rows[i].year

(***************************************************************************)
(* C5: no leakage.  The features of a row depend only on yields of the     *)
(* same entity at strictly earlier periods: with the yield of one record   *)
(* of another entity, or of the same entity at the same or a later period, *)
(* changed, the row's lag1, lag2 and roll3 are what they were.  Checked    *)
(* for the history rows of load_bns_long_csv (on files without duplicate   *)
(* periods) and for the query rows of attach_lags_for_prediction.          *)
(***************************************************************************)
FileWithYield(file, i, c) ==
  [file EXCEPT !.rows[i].yield_c_per_ha = Num(c)]

HistWithYield(hist, i, c) ==
  [hist EXCEPT !.rows[i].yield_t_ha = <<(c * Unit) \div 10>>]

Unrelated(e1, p1, e2, p2) == e1 # e2 \/ p1 >= p2

C5_LoadNoLeak ==
  (/\ pc = "serving"
   /\ \A e \in Entities : AscendingPeriods(e))
  => \A i \in DOMAIN csv.rows : \A c \in YieldVals :
       (csv.rows[i].year.kind = "num" /\ csv.rows[i].yield_c_per_ha.kind = "num")
       => LET other == load_bns_long_csv(FileWithYield(csv, i, c)) IN
          \A j \in DOMAIN HistRows :
            Unrelated(EntityOf(csv.rows[i].district), csv.rows[i].year.v,
                      HistRows[j].district, HistRows[j].year)
            => Features(other.rows[j]) = Features(HistRows[j])

C5_AttachNoLeak ==
  Attached =>
    \A i \in DOMAIN HistRows : \A c \in YieldVals :
      LET other == attach_lags_for_prediction(HistWithYield(BNS_HIST, i, c), poly_df)
      IN \A j \in DOMAIN out.rows :
           (/\ out.rows[j].year.kind = "num"
            /\ Unrelated(HistRows[i].district, HistRows[i].year,
                         EntityOf(out.rows[j].district), out.rows[j].year.v))
           => Features(other.rows[j]) = Features(out.rows[j])

(* C5: no feature of a row depends on a yield of another entity, or of the *)
(* same entity at the same or a later period, in the load and the attach.  *)
C5_NoLeakage == C5_LoadNoLeak /\ C5_AttachNoLeak

(***************************************************************************)
(* C8: a missing required column fails the whole call with a schema error  *)
(* and no rows, in load_bns_long_csv and in attach_lags_for_prediction;    *)
(* with the required columns present the call returns, whatever            *)
(* unparseable values the rows hold.                                       *)
(***************************************************************************)
C8_SchemaErrorOnlyForColumns ==
  /\ pc # "start" =>
       IF Required \ csv.cols # {}
       THEN BNS_HIST.status = "ValueError: missing columns" /\ BNS_HIST.rows = <<>>
       ELSE BNS_HIST.status = "ok"
  /\ pc = "attached" =>
       IF Need \ poly_df.cols # {}
       THEN out.status = "ValueError: missing columns" /\ out.rows = <<>>
       ELSE out.status = "ok"

(***************************************************************************)
(* C9: a caller row whose district differs from a historical entity only   *)
(* by leading or trailing whitespace gets the features it would get with   *)
(* the district already trimmed.                                           *)
(***************************************************************************)
TrimmedAt(req, i) ==
  [req EXCEPT !.rows[i].district = strip(req.rows[i].district)]

FeaturesFor(res, i) ==
  {Features(res.rows[j]) : j \in {k \in DOMAIN res.rows : res.rows[k].poly_id = i}}

(* C9: an untrimmed district gets the features of its trimmed form.        *)
C9_JoinKeyNormalized ==
  Attached =>
    \A i \in DOMAIN poly_df.rows :
      LET d == poly_df.rows[i].district IN
      (d # NaStr /\ strip(d) # d /\ strip(d) \in Entities)
      => FeaturesFor(out, i)
           = FeaturesFor(attach_lags_for_prediction(BNS_HIST, TrimmedAt(poly_df, i)), i)

(***************************************************************************)
(* C10: after load_bns_long_csv no record comes from a raw row whose       *)
(* district, year or yield was missing or unparseable; every record has a  *)
(* non-empty trimmed district, an integer year and yield = raw yield / 10, *)
(* and the load does not abort.                                            *)
(***************************************************************************)
C10_DirtyRowsExcluded ==
  (pc # "start" /\ Required \subseteq csv.cols) =>
    /\ BNS_HIST.status = "ok"
    /\ \A j \in DOMAIN HistRows :
         LET rec == HistRows[j]
             raw == csv.rows[rec.src]
         IN /\ raw.district # NaStr
            /\ raw.year.kind = "num"
            /\ raw.yield_c_per_ha.kind = "num"
            /\ rec.district = strip(raw.district)
            /\ rec.district # <<>>
            /\ rec.year = raw.year.v
            /\ rec.yield_t_ha # NaN
            /\ rec.yield_t_ha[1] * 10 = raw.yield_c_per_ha.v * Unit

(***************************************************************************)
(* C6: for a row with a finite base prediction, vegetation index and air   *)
(* temperature, adjustment = clamp(0.6 * (index - 0.2) + 0.02 * temp,      *)
(* -0.5, 0.5), so it lies in [-0.5, 0.5], and the final prediction is      *)
(* base + adjustment.                                                      *)
(***************************************************************************)
FiniteRow(r) ==
  /\ r.yield_pred_base_t_ha # NaN
  /\ r.ndvi_mean.kind = "num"
  /\ r.gee_air_temp_mean.kind = "num"

(* C6: adjustment = clamp(0.6 * (index - 0.2) + 0.02 * temp, -0.5, 0.5)    *)
(* and final = base + adjustment, for every finite row.                    *)
C6_AdjustmentClamped ==
  (pc = "adjusted" /\ SignalCols \subseteq poly_df.cols) =>
    /\ out.status = "ok"
    /\ Len(out.rows) = Len(poly_df.rows)
    /\ \A i \in DOMAIN poly_df.rows :
         LET r == poly_df.rows[i]
             sum == 6 * (r.ndvi_mean.v - 20) + 2 * r.gee_air_temp_mean.v
             adj == IF sum < -500 THEN -500 ELSE IF sum > 500 THEN 500 ELSE sum
         IN FiniteRow(r) =>
              /\ out.rows[i].yield_adjustment_t_ha = <<adj>>
              /\ -500 <= adj /\ adj <= 500
              /\ out.rows[i].yield_pred_t_ha = <<r.yield_pred_base_t_ha[1] + adj>>

(* base 4.8, index 0.5, temperature 10 gives adjustment 0.38 and final 5.18 *)
C6_Witness ==
  /\ pc = "adjusted"
  /\ out.status = "ok"
  /\ \E i \in DOMAIN out.rows :
       /\ poly_df.rows[i].yield_pred_base_t_ha = <<4800>>
       /\ poly_df.rows[i].ndvi_mean = Num(50)
       /\ poly_df.rows[i].gee_air_temp_mean = Num(100)
       /\ out.rows[i].yield_adjustment_t_ha = <<380>>
       /\ out.rows[i].yield_pred_t_ha = <<5180>>

(***************************************************************************)
(* C7: apply_mvp_adjustment returns normally whether a signal's column is  *)
(* absent or its cell is null or unparseable; such a signal contributes 0, *)
(* and with both signals missing adjustment = 0 and final = base.          *)
(***************************************************************************)
Contribution(frame, i, col, k, base) ==
  IF col \in frame.cols /\ frame.rows[i][col].kind = "num"
  THEN k * (frame.rows[i][col].v - base)
  ELSE 0

(* C7: a missing signal contributes 0 and the call returns normally.       *)
C7_MissingSignalIsZero ==
  pc = "adjusted" =>
    /\ out.status = "ok"
    /\ Len(out.rows) = Len(poly_df.rows)
    /\ \A i \in DOMAIN poly_df.rows :
         LET sum == Contribution(poly_df, i, "ndvi_mean", 6, 20)
                      + Contribution(poly_df, i, "gee_air_temp_mean", 2, 0)
             adj == IF sum < -500 THEN -500 ELSE IF sum > 500 THEN 500 ELSE sum
             base == poly_df.rows[i].yield_pred_base_t_ha
         IN /\ out.rows[i].yield_adjustment_t_ha = <<adj>>
            /\ base # NaN => out.rows[i].yield_pred_t_ha = <<base[1] + adj>>

====
